---- MODULE Spec2Model ----
(***************************************************************************)
(* Kitchen Helper (src/app.py): the session-scoped shopping list and       *)
(* favorites list, the handlers that mutate them, the home and /api/search *)
(* handlers with the recipe API client, and two concurrent requests of one *)
(* session over the cookie-backed session store.                           *)
(*                                                                         *)
(* Strings that the code strips, splits or parses are sequences of         *)
(* one-character strings, so that strip, split and int() are computed.     *)
(* Strings the code only passes on or compares whole (messages, the filter *)
(* argument, titles) are one-element sequences.                            *)
(***************************************************************************)
EXTENDS Integers, Sequences, FiniteSets, TLC

VARIABLES
    cookie,     \* the session as persisted between requests
    session,    \* the session object of the request handled last, at its end
    modified,   \* session.modified of that request
    request,    \* the request handled last
    response,   \* its response
    calls,      \* the search_recipes_by_ingredients calls it made
    api_key,    \* SPOONACULAR_API_KEY of the process
    pc,         \* concurrent requests: position of each request
    local,      \* concurrent requests: each request's own session object
    lmod,       \* concurrent requests: each request's session.modified
    creq,       \* concurrent requests: the request each one carries
    loaded,     \* concurrent requests: number of saves that preceded the load
    saves       \* concurrent requests: number of requests that finished

vars == <<cookie, session, modified, request, response, calls, api_key,
          pc, local, lmod, creq, loaded, saves>>

----------------------------------------------------------------------------
(* Bounds *)

MaxItems == 2

----------------------------------------------------------------------------
(* Strings *)

None == <<"None">>

IsSpace(c) == c = " "

RECURSIVE LStrip(_)
LStrip(s) == IF s = <<>> THEN s
             ELSE IF IsSpace(Head(s)) THEN LStrip(Tail(s)) ELSE s

RECURSIVE RStrip(_)
RStrip(s) == IF s = <<>> THEN s
             ELSE IF IsSpace(s[Len(s)]) THEN RStrip(SubSeq(s, 1, Len(s) - 1)) ELSE s

Strip(s) == RStrip(LStrip(s))

RECURSIVE Split(_)
Split(s) ==
    IF \A i \in 1..Len(s) : s[i] # ","
    THEN <<s>>
    ELSE LET i == CHOOSE k \in 1..Len(s) :
                      s[k] = "," /\ \A j \in 1..(k - 1) : s[j] # ","
         IN <<SubSeq(s, 1, i - 1)>> \o Split(SubSeq(s, i + 1, Len(s)))

Digits == {"0", "1", "2", "3"}

DigitVal(c) == CASE c = "0" -> 0 [] c = "1" -> 1 [] c = "2" -> 2 [] OTHER -> 3

RECURSIVE DecVal(_)
DecVal(s) == IF s = <<>> THEN 0
             ELSE 10 * DecVal(SubSeq(s, 1, Len(s) - 1)) + DigitVal(s[Len(s)])

ParseInt(s) ==
    LET t == Strip(s)
    IN IF t # <<>> /\ \A i \in 1..Len(t) : t[i] \in Digits
       THEN [ok |-> TRUE, val |-> DecVal(t)]
       ELSE [ok |-> FALSE, val |-> 0]

----------------------------------------------------------------------------
(* The session object *)

EmptySession == [keys |-> {}, shopping_list |-> <<>>, favorites |-> <<>>]

Has(s, key) == key \in s.keys

SetShoppingList(s, l) == [s EXCEPT !.keys = @ \cup {"shopping_list"}, !.shopping_list = l]

SetFavorites(s, l) == [s EXCEPT !.keys = @ \cup {"favorites"}, !.favorites = l]

FormGet(form, key, default) == IF form[key] = None THEN default ELSE form[key]

Ids(l) == {l[i].id : i \in 1..Len(l)}

RECURSIVE WithoutId(_, _)
WithoutId(l, id) ==
    IF l = <<>> THEN <<>>
    ELSE IF Head(l).id # id
         THEN <<Head(l)>> \o WithoutId(Tail(l), id)
         ELSE WithoutId(Tail(l), id)

SaveSession(old, s, m) == IF m THEN s ELSE old

----------------------------------------------------------------------------
(* Shopping list handlers *)

add_shopping_item_one_based(s0, req) ==
    LET s1 == IF Has(s0, "shopping_list") THEN s0 ELSE SetShoppingList(s0, <<>>)
        item_name == Strip(FormGet(req.form, "item_name", <<>>))
        new_item == [id |-> Len(s1.shopping_list) + 1,
                     name |-> item_name,
                     quantity |-> Strip(FormGet(req.form, "item_quantity", <<>>)),
                     checked |-> FALSE]
    IN IF item_name # <<>>
       THEN [session |-> [s1 EXCEPT !.shopping_list = Append(@, new_item)],
             modified |-> TRUE, status |-> 302]
       ELSE [session |-> s1, modified |-> ~Has(s0, "shopping_list"), status |-> 302]

add_shopping_item_overwrite(s0, req) ==
    LET s1 == IF Has(s0, "shopping_list") THEN s0 ELSE SetShoppingList(s0, <<>>)
        item_name == Strip(FormGet(req.form, "item_name", <<>>))
        new_item == [id |-> Len(s1.shopping_list),
                     name |-> item_name,
                     quantity |-> Strip(FormGet(req.form, "item_quantity", <<>>)),
                     checked |-> FALSE]
    IN IF item_name # <<>>
       THEN [session |-> [s1 EXCEPT !.shopping_list = <<new_item>>],
             modified |-> TRUE, status |-> 302]
       ELSE [session |-> s1, modified |-> ~Has(s0, "shopping_list"), status |-> 302]

add_shopping_item(s0, req) ==
    LET init == ~Has(s0, "shopping_list")
        s1 == IF init THEN SetShoppingList(s0, <<>>) ELSE s0
        item_name == Strip(FormGet(req.form, "item_name", <<>>))
        item_quantity == Strip(FormGet(req.form, "item_quantity", <<>>))
        new_item == [id |-> Len(s1.shopping_list),
                     name |-> item_name,
                     quantity |-> item_quantity,
                     checked |-> FALSE]
    IN IF item_name # <<>>
       THEN [session |-> [s1 EXCEPT !.shopping_list = Append(@, new_item)],
             modified |-> TRUE, status |-> 302]
       ELSE [session |-> s1, modified |-> init, status |-> 302]

remove_shopping_item_first_only(s0, req) ==
    LET l == s0.shopping_list
        i == IF req.id \in Ids(l)
             THEN CHOOSE k \in 1..Len(l) : l[k].id = req.id /\ \A j \in 1..(k - 1) : l[j].id # req.id
             ELSE 0
    IN IF Has(s0, "shopping_list")
       THEN [session |-> SetShoppingList(s0,
                IF i = 0 THEN l ELSE SubSeq(l, 1, i - 1) \o SubSeq(l, i + 1, Len(l))),
             modified |-> TRUE, status |-> 302]
       ELSE [session |-> s0, modified |-> FALSE, status |-> 302]

remove_shopping_item(s0, req) ==
    IF Has(s0, "shopping_list")
    THEN [session |-> SetShoppingList(s0, WithoutId(s0.shopping_list, req.id)),
          modified |-> TRUE, status |-> 302]
    ELSE [session |-> s0, modified |-> FALSE, status |-> 302]

FirstMatch(l, id) ==
    IF id \in Ids(l)
    THEN CHOOSE i \in 1..Len(l) : l[i].id = id /\ \A j \in 1..(i - 1) : l[j].id # id
    ELSE 0

toggle_shopping_item_no_break(s0, req) ==
    IF Has(s0, "shopping_list") /\ req.id \in Ids(s0.shopping_list)
    THEN [session |-> [s0 EXCEPT !.shopping_list =
                          [i \in 1..Len(@) |->
                              IF @[i].id = req.id
                              THEN [@[i] EXCEPT !.checked = ~@]
                              ELSE @[i]]],
          modified |-> TRUE, status |-> 302]
    ELSE [session |-> s0, modified |-> FALSE, status |-> 302]

toggle_shopping_item_unflagged(s0, req) ==
    LET i == FirstMatch(s0.shopping_list, req.id)
    IN IF Has(s0, "shopping_list") /\ i > 0
       THEN [session |-> [s0 EXCEPT !.shopping_list[i].checked = ~@],
             modified |-> FALSE, status |-> 302]
       ELSE [session |-> s0, modified |-> FALSE, status |-> 302]

toggle_shopping_item(s0, req) ==
    LET i == FirstMatch(s0.shopping_list, req.id)
    IN IF Has(s0, "shopping_list") /\ i > 0
       THEN [session |-> [s0 EXCEPT !.shopping_list[i].checked = ~@],
             modified |-> TRUE, status |-> 302]
       ELSE [session |-> s0, modified |-> FALSE, status |-> 302]

----------------------------------------------------------------------------
(* Favorites handlers *)

add_favorite_no_check(s0, req) ==
    LET init == ~Has(s0, "favorites")
        s1 == IF init THEN SetFavorites(s0, <<>>) ELSE s0
        recipe_id == req.form["recipe_id"]
        parsed == ParseInt(recipe_id)
        new_favorite == [id |-> parsed.val,
                         title |-> FormGet(req.form, "recipe_title", <<>>),
                         image |-> FormGet(req.form, "recipe_image", <<>>)]
    IN IF recipe_id # None /\ recipe_id # <<>>
       THEN IF ~parsed.ok
            THEN [session |-> s1, modified |-> init, status |-> 500]
            ELSE [session |-> [s1 EXCEPT !.favorites = Append(@, new_favorite)],
                  modified |-> TRUE, status |-> 302]
       ELSE [session |-> s1, modified |-> init, status |-> 302]

add_favorite(s0, req) ==
    LET init == ~Has(s0, "favorites")
        s1 == IF init THEN SetFavorites(s0, <<>>) ELSE s0
        recipe_id == req.form["recipe_id"]
        parsed == ParseInt(recipe_id)
        new_favorite == [id |-> parsed.val,
                         title |-> FormGet(req.form, "recipe_title", <<>>),
                         image |-> FormGet(req.form, "recipe_image", <<>>)]
    IN IF recipe_id # None /\ recipe_id # <<>>
       THEN IF ~parsed.ok
            THEN [session |-> s1, modified |-> init, status |-> 500]
            ELSE IF parsed.val \notin Ids(s1.favorites)
                 THEN [session |-> [s1 EXCEPT !.favorites = Append(@, new_favorite)],
                       modified |-> TRUE, status |-> 302]
                 ELSE [session |-> s1, modified |-> init, status |-> 302]
       ELSE [session |-> s1, modified |-> init, status |-> 302]

remove_favorite(s0, req) ==
    IF Has(s0, "favorites")
    THEN [session |-> SetFavorites(s0, WithoutId(s0.favorites, req.id)),
          modified |-> TRUE, status |-> 302]
    ELSE [session |-> s0, modified |-> FALSE, status |-> 302]

ReturnUrl(req) == FormGet(req.form, "return_url", <<"/">>)

----------------------------------------------------------------------------
(* Requests and responses *)

NoForm == [item_name |-> None, item_quantity |-> None, recipe_id |-> None,
           recipe_title |-> None, recipe_image |-> None, return_url |-> None,
           ingredients |-> None]

NoJson == [has_ingredients |-> FALSE, ingredients |-> <<>>]

NoRequest == [method |-> "NONE", path |-> "", id |-> 0, form |-> NoForm,
              filter |-> None, is_json |-> FALSE, json |-> NoJson]

NoBody == [type |-> "none", keys |-> {}, error |-> None, items |-> <<>>]

NoResponse == [status |-> 0, location |-> <<>>, error_message |-> None,
               recipes |-> <<>>, ingredients_list |-> <<>>,
               random_recipes |-> <<>>, total_items |-> 0, done_items |-> 0,
               body |-> NoBody]

Redirect(status, url) ==
    [NoResponse EXCEPT !.status = status,
                       !.location = IF status = 302 THEN url ELSE <<>>]

NameInputs == {None, <<>>, <<" ">>, <<"a">>, <<" ", "a", " ">>}

QuantityInputs == {None, <<" ">>, <<"2">>}

FavoriteForms ==
    {NoForm,
     [NoForm EXCEPT !.recipe_id = <<>>, !.recipe_title = <<"S">>],
     [NoForm EXCEPT !.recipe_id = <<"1">>, !.recipe_title = <<"S">>, !.recipe_image = <<"i">>],
     [NoForm EXCEPT !.recipe_id = <<"0", "1">>, !.recipe_image = <<"j">>,
                    !.return_url = <<"/", "r">>],
     [NoForm EXCEPT !.recipe_id = <<" ", "2">>, !.recipe_title = <<"T">>,
                    !.return_url = <<"/", "r">>],
     [NoForm EXCEPT !.recipe_id = <<"2">>, !.recipe_title = <<"T">>],
     [NoForm EXCEPT !.recipe_id = <<"x">>, !.recipe_title = <<"S">>]}

ReturnUrlInputs == {None, <<"/", "r">>}

ItemIds == 0..MaxItems

FavoriteIds == {1, 2, 3}

AddShoppingRequests ==
    {[NoRequest EXCEPT !.method = "POST", !.path = "/shopping-list/add",
                       !.form = [NoForm EXCEPT !.item_name = n, !.item_quantity = q]] :
        n \in NameInputs, q \in QuantityInputs}

RemoveShoppingRequests ==
    {[NoRequest EXCEPT !.method = "POST", !.path = "/shopping-list/remove", !.id = i] :
        i \in ItemIds}

ToggleShoppingRequests ==
    {[NoRequest EXCEPT !.method = "POST", !.path = "/shopping-list/toggle", !.id = i] :
        i \in ItemIds}

AddFavoriteRequests ==
    {[NoRequest EXCEPT !.method = "POST", !.path = "/favorites/add", !.form = f] :
        f \in FavoriteForms}

RemoveFavoriteRequests ==
    {[NoRequest EXCEPT !.method = "POST", !.path = "/favorites/remove", !.id = i,
                       !.form = [NoForm EXCEPT !.return_url = u]] :
        i \in FavoriteIds, u \in ReturnUrlInputs}

----------------------------------------------------------------------------
(* One request of the session at a time: load, handle, save.  The session  *)
(* is persisted only when session.modified is set; an unhandled exception  *)
(* (int() of a non-numeric recipe_id) propagates under DEBUG = True and     *)
(* the session is not persisted.                                            *)

Handle(req, out, url) ==
    /\ request' = req
    /\ session' = out.session
    /\ modified' = out.modified
    /\ cookie' = IF out.status = 500 THEN cookie
                 ELSE SaveSession(cookie, out.session, out.modified)
    /\ response' = Redirect(out.status, url)
    /\ calls' = <<>>
    /\ UNCHANGED <<api_key, pc, local, lmod, creq, loaded, saves>>

AddShoppingItem ==
    \E req \in AddShoppingRequests :
        /\ Len(cookie.shopping_list) < MaxItems
        /\ Handle(req, add_shopping_item(cookie, req), <<"/">>)

RemoveShoppingItem ==
    \E req \in RemoveShoppingRequests :
        Handle(req, remove_shopping_item(cookie, req), <<"/">>)

ToggleShoppingItem ==
    \E req \in ToggleShoppingRequests :
        Handle(req, toggle_shopping_item(cookie, req), <<"/">>)

AddFavorite ==
    \E req \in AddFavoriteRequests :
        Handle(req, add_favorite(cookie, req), ReturnUrl(req))

RemoveFavorite ==
    \E req \in RemoveFavoriteRequests :
        Handle(req, remove_favorite(cookie, req), ReturnUrl(req))

----------------------------------------------------------------------------
(* Recipe API client *)

ErrorDict(msg) == [type |-> "dict", keys |-> {"error"}, error |-> <<msg>>, items |-> <<>>]

JsonList(l) == [type |-> "list", keys |-> {}, error |-> None, items |-> l]

JsonDict(ks) == [type |-> "dict", keys |-> ks, error |-> None, items |-> <<>>]

HasError(result) == result.type = "dict" /\ "error" \in result.keys

Configured(key) == ~(key = "" \/ key = "YOUR_API_KEY_HERE")

search_recipes_by_ingredients(key, ingredients, net) ==
    IF ~Configured(key)
    THEN ErrorDict("API key not configured")
    ELSE IF net.raised
         THEN ErrorDict("Failed to fetch recipes")
         ELSE net.json

ClientCall(key, ingredients, net) ==
    [ingredients |-> ingredients,
     requested |-> Configured(key),
     raised |-> Configured(key) /\ net.raised,
     result |-> search_recipes_by_ingredients(key, ingredients, net)]

Recipe(i, t) == [id |-> i, title |-> <<t>>]

RecipeLists ==
    {<<>>,
     <<Recipe(1, "a"), Recipe(2, "b"), Recipe(3, "c")>>,
     <<Recipe(2, "b"), Recipe(3, "c"), Recipe(2, "d"), Recipe(1, "a")>>}

NetOutcomes ==
    {[raised |-> TRUE, json |-> [type |-> "none", keys |-> {}, error |-> None, items |-> <<>>]]}
    \cup {[raised |-> FALSE, json |-> JsonList(l)] : l \in RecipeLists}
    \cup {[raised |-> FALSE, json |-> JsonDict({"message"})]}

RandomOutcomes ==
    {[raised |-> TRUE, status |-> 0,
      json |-> [type |-> "none", keys |-> {}, error |-> None, items |-> <<>>]],
     [raised |-> FALSE, status |-> 402, json |-> JsonDict({"message"})],
     [raised |-> FALSE, status |-> 200, json |-> JsonDict({"recipes"})],
     [raised |-> FALSE, status |-> 200, json |-> JsonList(<<Recipe(3, "c")>>)]}

ApiKeys == {"", "YOUR_API_KEY_HERE", "key"}

----------------------------------------------------------------------------
(* Home and /api/search handlers *)

RECURSIVE StripNonEmpty(_)
StripNonEmpty(parts) ==
    IF parts = <<>> THEN <<>>
    ELSE IF Strip(Head(parts)) # <<>>
         THEN <<Strip(Head(parts))>> \o StripNonEmpty(Tail(parts))
         ELSE StripNonEmpty(Tail(parts))

RECURSIVE FilterByIdsReversed(_, _)
FilterByIdsReversed(recipes, favorite_ids) ==
    IF recipes = <<>> THEN <<>>
    ELSE IF Head(recipes).id \in favorite_ids
         THEN FilterByIdsReversed(Tail(recipes), favorite_ids) \o <<Head(recipes)>>
         ELSE FilterByIdsReversed(Tail(recipes), favorite_ids)

RECURSIVE FilterByIds(_, _)
FilterByIds(recipes, favorite_ids) ==
    IF recipes = <<>> THEN <<>>
    ELSE IF Head(recipes).id \in favorite_ids
         THEN <<Head(recipes)>> \o FilterByIds(Tail(recipes), favorite_ids)
         ELSE FilterByIds(Tail(recipes), favorite_ids)

\* A JSON string value behaves here as the array of its characters: both are
\* tested for truthiness and joined with ','.
JsonIngredients(req) == IF req.json.has_ingredients THEN req.json.ingredients ELSE <<>>

FormIngredients(req) ==
    LET ingredients_input == FormGet(req.form, "ingredients", <<>>)
    IN IF ingredients_input # <<>>
       THEN StripNonEmpty(Split(ingredients_input))
       ELSE <<>>

index(s0, req, key, net, rnd) ==
    LET init == ~Has(s0, "shopping_list") \/ ~Has(s0, "favorites")
        s1 == IF Has(s0, "shopping_list") THEN s0 ELSE SetShoppingList(s0, <<>>)
        s2 == IF Has(s1, "favorites") THEN s1 ELSE SetFavorites(s1, <<>>)
        filter_type == IF req.filter = None THEN <<"all">> ELSE req.filter
        post == req.method = "POST"
        ingredients == IF req.is_json THEN JsonIngredients(req) ELSE FormIngredients(req)
        searched == post /\ ingredients # <<>>
        result == search_recipes_by_ingredients(key, ingredients, net)
        failed == searched /\ HasError(result)
        fetched == IF searched /\ ~failed /\ result.type = "list"
                   THEN result.items ELSE <<>>
        ingredients_list == IF searched /\ ~failed THEN ingredients ELSE <<>>
        error_message == IF ~post THEN None
                         ELSE IF ~searched THEN <<"Please provide at least one ingredient.">>
                         ELSE IF failed THEN result.error
                         ELSE None
        recipes == IF filter_type = <<"favorites">> /\ fetched # <<>>
                   THEN FilterByIds(fetched, Ids(s2.favorites))
                   ELSE fetched
        shopping_list == s2.shopping_list
        random_recipes ==
            IF recipes = <<>> /\ ingredients_list = <<>> /\ req.method = "GET"
            THEN IF rnd.raised \/ rnd.status # 200 THEN <<>>
                 ELSE IF rnd.json.type = "dict" THEN <<rnd.json>>
                 ELSE rnd.json.items
            ELSE <<>>
    IN [session |-> s2, modified |-> init,
        calls |-> IF searched THEN <<ClientCall(key, ingredients, net)>> ELSE <<>>,
        response |-> [NoResponse EXCEPT
            !.status = 200,
            !.error_message = error_message,
            !.recipes = recipes,
            !.ingredients_list = ingredients_list,
            !.random_recipes = random_recipes,
            !.total_items = Len(shopping_list),
            !.done_items = Cardinality({i \in 1..Len(shopping_list) : shopping_list[i].checked})]]

api_search_always_ok(s0, req, key, net) ==
    LET ingredients == JsonIngredients(req)
        result == search_recipes_by_ingredients(key, ingredients, net)
    IN IF ~req.is_json
       THEN [session |-> s0, modified |-> FALSE, calls |-> <<>>,
             response |-> [NoResponse EXCEPT !.status = 400,
                                             !.body = ErrorDict("Request must be JSON")]]
       ELSE IF ingredients = <<>>
       THEN [session |-> s0, modified |-> FALSE, calls |-> <<>>,
             response |-> [NoResponse EXCEPT !.status = 400,
                                             !.body = ErrorDict("Ingredients list is required")]]
       ELSE [session |-> s0, modified |-> FALSE,
             calls |-> <<ClientCall(key, ingredients, net)>>,
             response |-> [NoResponse EXCEPT !.status = 200, !.body = result]]

api_search(s0, req, key, net) ==
    LET ingredients == JsonIngredients(req)
        result == search_recipes_by_ingredients(key, ingredients, net)
    IN IF ~req.is_json
       THEN [session |-> s0, modified |-> FALSE, calls |-> <<>>,
             response |-> [NoResponse EXCEPT !.status = 400,
                                             !.body = ErrorDict("Request must be JSON")]]
       ELSE IF ingredients = <<>>
       THEN [session |-> s0, modified |-> FALSE, calls |-> <<>>,
             response |-> [NoResponse EXCEPT !.status = 400,
                                             !.body = ErrorDict("Ingredients list is required")]]
       ELSE [session |-> s0, modified |-> FALSE,
             calls |-> <<ClientCall(key, ingredients, net)>>,
             response |-> [NoResponse EXCEPT !.status = IF HasError(result) THEN 500 ELSE 200,
                                             !.body = result]]

JsonInputs ==
    {NoJson}
    \cup {[has_ingredients |-> TRUE, ingredients |-> l] :
             l \in {<<>>, << <<"e">> >>, << <<"e">>, <<"r">> >>, << <<" ">> >>, << <<>> >>}}

FormInputs == {None, <<>>, <<" ">>, <<",", " ">>, <<"e">>,
               <<"a", ",", " ", "b", " ", ",", ",", "c">>}

FilterInputs == {None, <<"all">>, <<"favorites">>}

SearchBodies ==
    {[NoRequest EXCEPT !.is_json = TRUE, !.json = j] : j \in JsonInputs}
    \cup {[NoRequest EXCEPT !.form = [NoForm EXCEPT !.ingredients = f]] : f \in FormInputs}

IndexRequests ==
    {[b EXCEPT !.method = "POST", !.path = "/", !.filter = f] :
        b \in SearchBodies, f \in FilterInputs}
    \cup {[NoRequest EXCEPT !.method = "GET", !.path = "/", !.filter = f] : f \in FilterInputs}

ApiSearchRequests ==
    {[b EXCEPT !.method = "POST", !.path = "/api/search"] : b \in SearchBodies}

Respond(req, out) ==
    /\ request' = req
    /\ session' = out.session
    /\ modified' = out.modified
    /\ cookie' = SaveSession(cookie, out.session, out.modified)
    /\ response' = out.response
    /\ calls' = out.calls
    /\ UNCHANGED <<api_key, pc, local, lmod, creq, loaded, saves>>

NoNet == [raised |-> TRUE, json |-> NoBody]

NoRandom == [raised |-> TRUE, status |-> 0, json |-> NoBody]

Index ==
    \E req \in IndexRequests :
        \E net \in IF req.method = "POST" THEN NetOutcomes ELSE {NoNet},
           rnd \in IF req.method = "GET" THEN RandomOutcomes ELSE {NoRandom} :
            Respond(req, index(cookie, req, api_key, net, rnd))

ApiSearch ==
    \E req \in ApiSearchRequests, net \in NetOutcomes :
        Respond(req, api_search(cookie, req, api_key, net))

Procs == {1, 2}

ConcIdle ==
    /\ pc = [p \in Procs |-> "idle"]
    /\ local = [p \in Procs |-> EmptySession]
    /\ lmod = [p \in Procs |-> FALSE]
    /\ creq = [p \in Procs |-> NoRequest]
    /\ loaded = [p \in Procs |-> 0]
    /\ saves = 0

Init ==
    /\ cookie = EmptySession
    /\ session = EmptySession
    /\ modified = FALSE
    /\ request = NoRequest
    /\ response = NoResponse
    /\ calls = <<>>
    /\ api_key = "key"
    /\ ConcIdle

Next ==
    \/ AddShoppingItem
    \/ RemoveShoppingItem
    \/ ToggleShoppingItem
    \/ AddFavorite
    \/ RemoveFavorite

Spec == Init /\ [][Next]_vars

InitSearch ==
    /\ cookie = EmptySession
    /\ session = EmptySession
    /\ modified = FALSE
    /\ request = NoRequest
    /\ response = NoResponse
    /\ calls = <<>>
    /\ api_key \in ApiKeys
    /\ ConcIdle

NextSearch ==
    \/ Index
    \/ ApiSearch
    \/ AddFavorite
    \/ RemoveFavorite

SpecSearch == InitSearch /\ [][NextSearch]_vars

----------------------------------------------------------------------------
(* Two requests of one session in flight at once.  Each request gets its    *)
(* own session object, loaded from the session as persisted when the        *)
(* request starts, and persists it when it ends if it was modified.         *)

MutationRequests ==
    AddShoppingRequests \cup RemoveShoppingRequests \cup ToggleShoppingRequests
    \cup AddFavoriteRequests \cup RemoveFavoriteRequests

Dispatch(req, s) ==
    CASE req.path = "/shopping-list/add" -> add_shopping_item(s, req)
      [] req.path = "/shopping-list/remove" -> remove_shopping_item(s, req)
      [] req.path = "/shopping-list/toggle" -> toggle_shopping_item(s, req)
      [] req.path = "/favorites/add" -> add_favorite(s, req)
      [] OTHER -> remove_favorite(s, req)

ConcStart ==
    add_shopping_item(EmptySession,
        [NoRequest EXCEPT !.method = "POST", !.path = "/shopping-list/add",
                          !.form = [NoForm EXCEPT !.item_name = <<"a">>]]).session

ConcBegin(p) ==
    /\ pc[p] = "idle"
    /\ \E req \in MutationRequests : creq' = [creq EXCEPT ![p] = req]
    /\ local' = [local EXCEPT ![p] = cookie]
    /\ loaded' = [loaded EXCEPT ![p] = saves]
    /\ pc' = [pc EXCEPT ![p] = "loaded"]
    /\ UNCHANGED <<cookie, session, modified, request, response, calls, api_key,
                   lmod, saves>>

ConcHandle(p) ==
    /\ pc[p] = "loaded"
    /\ LET out == Dispatch(creq[p], local[p])
       IN /\ local' = [local EXCEPT ![p] = out.session]
          /\ lmod' = [lmod EXCEPT ![p] = out.modified /\ out.status # 500]
    /\ pc' = [pc EXCEPT ![p] = "handled"]
    /\ UNCHANGED <<cookie, session, modified, request, response, calls, api_key,
                   creq, loaded, saves>>

ConcFinish(p) ==
    /\ pc[p] = "handled"
    /\ cookie' = SaveSession(cookie, local[p], lmod[p])
    /\ saves' = saves + 1
    /\ pc' = [pc EXCEPT ![p] = "done"]
    /\ UNCHANGED <<session, modified, request, response, calls, api_key,
                   local, lmod, creq, loaded>>

InitConc ==
    /\ cookie = ConcStart
    /\ session = EmptySession
    /\ modified = FALSE
    /\ request = NoRequest
    /\ response = NoResponse
    /\ calls = <<>>
    /\ api_key = "key"
    /\ ConcIdle

NextConc ==
    \/ \E p \in Procs : ConcBegin(p)
    \/ \E p \in Procs : ConcHandle(p)
    \/ \E p \in Procs : ConcFinish(p)

SpecConc == InitConc /\ [][NextConc]_vars

----------------------------------------------------------------------------
(* Properties *)

UniqueIds(l) == \A i, j \in 1..Len(l) : l[i].id = l[j].id => i = j

\* C1: in every reachable state no two items of the shopping list have the
\* same id.
C1_ShoppingIdsUnique == UniqueIds(cookie.shopping_list)

RequestedFavoriteId == ParseInt(request.form["recipe_id"]).val

\* C2: the favorites list never holds two entries with one recipe id, and an
\* addFavorite whose id is already present leaves the favorites list as it was.
C2_FavoritesUnique ==
    /\ [](UniqueIds(cookie.favorites) /\ UniqueIds(session.favorites))
    /\ [][(/\ request'.path = "/favorites/add"
           /\ request'.form["recipe_id"] \notin {None, <<>>}
           /\ ParseInt(request'.form["recipe_id"]).ok
           /\ ParseInt(request'.form["recipe_id"]).val \in Ids(cookie.favorites))
          => /\ session'.favorites = cookie.favorites
             /\ cookie'.favorites = cookie.favorites]_vars

C2_DuplicateAddSeen ==
    /\ request.path = "/favorites/add"
    /\ response.status = 302
    /\ Len(cookie.favorites) = 2
    /\ \E i \in 1..Len(cookie.favorites) :
          /\ cookie.favorites[i].id = RequestedFavoriteId
          /\ cookie.favorites[i].image # FormGet(request.form, "recipe_image", <<>>)
          /\ request.form["recipe_id"] # <<"1">>

\* C3: addShoppingItem with a name that is empty after trimming leaves the
\* shopping list unchanged; otherwise it appends exactly one item whose id is
\* the list's length before the call and whose checked is false, and keeps
\* every earlier item.
C3_AddShoppingItem ==
    [][request'.path = "/shopping-list/add" =>
         LET old == cookie.shopping_list
             new == session'.shopping_list
         IN /\ cookie'.shopping_list = new
            /\ IF Strip(FormGet(request'.form, "item_name", <<>>)) = <<>>
               THEN new = old
               ELSE /\ Len(new) = Len(old) + 1
                    /\ SubSeq(new, 1, Len(old)) = old
                    /\ new[Len(new)].id = Len(old)
                    /\ new[Len(new)].checked = FALSE]_vars

C3_TwoAdds ==
    /\ request.path = "/shopping-list/add"
    /\ request.form["item_name"] = <<" ", "a", " ">>
    /\ Len(cookie.shopping_list) = 2
    /\ cookie.shopping_list[1].id = 0
    /\ cookie.shopping_list[2].id = 1
    /\ cookie.shopping_list[2].name = <<"a">>
    /\ ~cookie.shopping_list[1].checked /\ ~cookie.shopping_list[2].checked

ToggleRequest(id) ==
    [NoRequest EXCEPT !.method = "POST", !.path = "/shopping-list/toggle", !.id = id]

Toggled(s, id) ==
    LET out == toggle_shopping_item(s, ToggleRequest(id))
    IN IF out.modified THEN out.session ELSE s

\* C4: toggling an id twice restores the shopping list; one toggle flips
\* checked on the first item with that id only, leaves every other item and
\* the favorites alone, and does nothing when no item has the id.
C4_Toggle ==
    /\ [](\A id \in ItemIds : Toggled(Toggled(cookie, id), id) = cookie)
    /\ [][request'.path = "/shopping-list/toggle" =>
            LET old == cookie.shopping_list
                new == cookie'.shopping_list
                id == request'.id
            IN /\ session'.shopping_list = new
               /\ cookie'.favorites = cookie.favorites
               /\ Len(new) = Len(old)
               /\ \A i \in 1..Len(old) :
                     IF old[i].id = id /\ \A j \in 1..(i - 1) : old[j].id # id
                     THEN new[i] = [old[i] EXCEPT !.checked = ~old[i].checked]
                     ELSE new[i] = old[i]]_vars

C4_FirstOfTwoToggled ==
    /\ request.path = "/shopping-list/toggle"
    /\ modified
    /\ Len(cookie.shopping_list) = 2
    /\ cookie.shopping_list[1].id = request.id
    /\ cookie.shopping_list[2].id = request.id
    /\ cookie.shopping_list[1].checked
    /\ ~cookie.shopping_list[2].checked

Removed(l, id) == LET Keep(x) == x.id # id IN SelectSeq(l, Keep)

\* C5: removeShoppingItem(id) and removeFavorite(id) leave their list equal to
\* the previous list without the entries whose id is the argument, the others
\* unchanged and in order; with no such entry the list is unchanged; the
\* response is the redirect in every case.
C5_Remove ==
    [][/\ request'.path = "/shopping-list/remove" =>
            /\ session'.shopping_list = Removed(cookie.shopping_list, request'.id)
            /\ cookie'.shopping_list = Removed(cookie.shopping_list, request'.id)
            /\ cookie'.favorites = cookie.favorites
            /\ response'.status = 302
       /\ request'.path = "/favorites/remove" =>
            /\ session'.favorites = Removed(cookie.favorites, request'.id)
            /\ cookie'.favorites = Removed(cookie.favorites, request'.id)
            /\ cookie'.shopping_list = cookie.shopping_list
            /\ response'.status = 302]_vars

C5_RemovedOne ==
    /\ request.path = "/shopping-list/remove"
    /\ request.id = 1
    /\ modified
    /\ response.status = 302
    /\ Len(cookie.shopping_list) = 1
    /\ cookie.shopping_list[1].id = 0
    /\ cookie.shopping_list[1].checked

\* C6: a request whose session object ends with a shopping list or a favorites
\* list different from the one the request started with has set
\* session.modified.
C6_MutationSetsModified ==
    [][(\/ session'.shopping_list # cookie.shopping_list
        \/ session'.favorites # cookie.favorites) => modified']_vars

C6_ToggleFlagged ==
    /\ request.path = "/shopping-list/toggle"
    /\ modified
    /\ \E i \in 1..Len(session.shopping_list) :
          session.shopping_list[i].id = request.id /\ session.shopping_list[i].checked
    /\ cookie = session

RECURSIVE AllBlank(_)
AllBlank(l) == l = <<>> \/ (Strip(Head(l)) = <<>> /\ AllBlank(Tail(l)))

InputEmpty(req) ==
    IF req.is_json
    THEN ~req.json.has_ingredients \/ AllBlank(req.json.ingredients)
    ELSE Strip(FormGet(req.form, "ingredients", <<>>)) = <<>>

\* C7: a POST to the home handler or to /api/search whose ingredient input is
\* missing or empty after trimming ends with a validation error (home: an
\* error message; /api/search: status 400) and makes no client call.
C7_EmptyInputRejected ==
    (request.method = "POST" /\ request.path \in {"/", "/api/search"} /\ InputEmpty(request))
    => /\ calls = <<>>
       /\ request.path = "/" => response.error_message # None
       /\ request.path = "/api/search" => response.status = 400

Fetched == IF calls # <<>> /\ calls[1].result.type = "list"
           THEN calls[1].result.items ELSE <<>>

InFavorites(r) == \E i \in 1..Len(session.favorites) : session.favorites[i].id = r.id

\* C8: on the home handler with filter=favorites the displayed recipes are the
\* recipes this request fetched whose id is a favorite's id, in order and
\* unmodified; with any other filter the fetched recipes are displayed as
\* fetched.
C8_FilterFavorites ==
    request.path = "/" =>
        /\ session.favorites = cookie.favorites
        /\ response.recipes = IF request.filter = <<"favorites">>
                              THEN SelectSeq(Fetched, InFavorites)
                              ELSE Fetched

C8_Filtered ==
    /\ request.path = "/"
    /\ request.filter = <<"favorites">>
    /\ Len(Fetched) = 4
    /\ Len(response.recipes) = 3
    /\ response.recipes[1] # response.recipes[2]
    /\ response.recipes[1].id = response.recipes[2].id

\* C9: /api/search with a non-empty ingredients array calls the client exactly
\* once; the response is 500 with the client's error payload when the key is
\* unconfigured or the request failed, and 200 with the payload as returned
\* otherwise.
C9_ApiSearch ==
    (request.path = "/api/search" /\ request.is_json /\ request.json.ingredients # <<>>)
    => /\ Len(calls) = 1
       /\ calls[1].ingredients = request.json.ingredients
       /\ response.body = calls[1].result
       /\ IF ~Configured(api_key) \/ calls[1].raised
          THEN response.status = 500 /\ "error" \in response.body.keys
          ELSE response.status = 200 /\ response.body.error = None

C9_ServerError ==
    /\ request.path = "/api/search"
    /\ Len(calls) = 1
    /\ calls[1].raised
    /\ Len(calls[1].ingredients) = 2
    /\ response.status = 500

AllDone == \A p \in Procs : pc[p] = "done"

Sequential == \E p, q \in Procs : loaded[p] = 0 /\ loaded[q] = 1

BothPath(path) == \A p \in Procs : creq[p].path = path

Adds(p) == creq[p].path = "/shopping-list/add"
           /\ Strip(FormGet(creq[p].form, "item_name", <<>>)) # <<>>

\* C10: when the two requests run one after the other the final session holds
\* the effect of both: two adds lengthen the list by two, two toggles of one
\* item restore it, two addFavorite with different ids leave both ids.  (The
\* overlapping run that loses one of them is the witness.)
C10_SequentialKeepsBoth ==
    (AllDone /\ Sequential) =>
        /\ (Adds(1) /\ Adds(2))
              => Len(cookie.shopping_list) = Len(ConcStart.shopping_list) + 2
        /\ (BothPath("/shopping-list/toggle") /\ creq[1].id = creq[2].id)
              => cookie.shopping_list = ConcStart.shopping_list
        /\ (/\ BothPath("/favorites/add")
            /\ \A p \in Procs : creq[p].form["recipe_id"] \in {<<"1">>, <<"2">>}
            /\ creq[1].form["recipe_id"] # creq[2].form["recipe_id"])
              => Ids(cookie.favorites) = {1, 2}

C10_LostUpdate ==
    /\ AllDone
    /\ ~Sequential
    /\ Adds(1) /\ Adds(2)
    /\ Len(cookie.shopping_list) = Len(ConcStart.shopping_list) + 1

====
